---- MODULE Spec2Model ----
(***************************************************************************)
(* A model of router.py, the LiteLLM auto-router management script: one    *)
(* process invocation from the parsed command line to exit.                *)
(*                                                                         *)
(* Python values are tagged records [t, v].  A Python str is a sequence of *)
(* symbols; a symbol is one character, or a word: an unbroken run of       *)
(* characters none of which is a quote, a backslash, a control character,  *)
(* white space, a digit or JSON punctuation.  json.dumps, json.loads,      *)
(* repr and str are computed symbol by symbol as the library computes them *)
(* character by character, on the fragment of JSON the inputs range over   *)
(* (no exponents, no negative numbers, no \u escapes, no NaN).             *)
(***************************************************************************)
EXTENDS Integers, Sequences, FiniteSets, TLC

(* ------------------------------------------------------------------ *)
(* Python values                                                       *)
(* ------------------------------------------------------------------ *)

PyNone == [t |-> "null", v |-> <<>>]
PyStr(s) == [t |-> "str", v |-> s]
PyInt(n) == [t |-> "int", v |-> n]
\* a float is its shortest decimal: integer part, fraction digits (at least
\* one, no trailing zero beyond the first)
PyFloat(i, f) == [t |-> "float", v |-> <<i, f>>]
PyBool(b) == [t |-> "bool", v |-> b]
PyList(xs) == [t |-> "list", v |-> xs]
\* a dict is its items in insertion order, each <<key, value>>, keys str
PyDict(kvs) == [t |-> "dict", v |-> kvs]

\* a word as a str
W(w) == <<w>>

\* bool(x) for the values an option can hold
Truthy(x) ==
    CASE x.t = "null" -> FALSE
      [] x.t = "bool" -> x.v
      [] x.t = "int" -> x.v # 0
      [] x.t = "float" -> x.v # <<0, <<0>>>>
      [] OTHER -> Len(x.v) > 0

RECURSIVE DictFind(_, _, _)
\* the index of key k among the items kvs from i on, or 0
DictFind(kvs, k, i) ==
    IF i > Len(kvs) THEN 0
    ELSE IF kvs[i][1] = k THEN i
    ELSE DictFind(kvs, k, i + 1)

\* d[k] = x on a dict's items: an existing key keeps its place
DictSet(kvs, k, x) ==
    LET i == DictFind(kvs, k, 1) IN
    IF i = 0 THEN Append(kvs, <<k, x>>)
    ELSE [kvs EXCEPT ![i] = <<k, x>>]

\* dict.get(k, default)
DictGet(d, k, default) ==
    LET i == DictFind(d.v, k, 1) IN
    IF i = 0 THEN default ELSE d.v[i][2]

\* whether x has a method get: only a dict has
HasGet(x) == x.t = "dict"

\* whether len(x) is defined
HasLen(x) == x.t \in {"str", "list", "dict"}

(* ------------------------------------------------------------------ *)
(* str(int)                                                            *)
(* ------------------------------------------------------------------ *)

DigitChars == <<"0", "1", "2", "3", "4", "5", "6", "7", "8", "9">>

RECURSIVE IntToStr(_)
IntToStr(n) ==
    IF n < 10 THEN <<DigitChars[n + 1]>>
    ELSE IntToStr(n \div 10) \o <<DigitChars[(n % 10) + 1]>>

DigitsToStr(ds) == [i \in 1..Len(ds) |-> DigitChars[ds[i] + 1]]

RECURSIVE Join(_, _, _)
\* the pieces lo..hi one after the other
Join(pieces, lo, hi) ==
    IF lo > hi THEN <<>>
    ELSE IF lo = hi THEN pieces[lo]
    ELSE LET mid == (lo + hi) \div 2 IN
         Join(pieces, lo, mid) \o Join(pieces, mid + 1, hi)

Concat(pieces) == Join(pieces, 1, Len(pieces))

\* repr(float), which json.dumps uses too
FloatRepr(x) == IntToStr(x.v[1]) \o <<".">> \o DigitsToStr(x.v[2])

(* ------------------------------------------------------------------ *)
(* json.dumps                                                          *)
(* ------------------------------------------------------------------ *)

\* what a JSON string literal holds for the character c (ensure_ascii, the
\* default)
EscapeJsonChar(c) ==
    CASE c = "\"" -> <<"\\", "\"">>
      [] c = "\\" -> <<"\\", "\\">>
      [] c = "\n" -> <<"\\", "n">>
      [] OTHER -> <<c>>

\* the body of a JSON string literal
EscapeJson(s) == Concat([i \in 1..Len(s) |-> EscapeJsonChar(s[i])])

JsonString(s) == <<"\"">> \o EscapeJson(s) \o <<"\"">>

Spaces(n) == [i \in 1..n |-> " "]

\* what separates the items of a container at nesting level lvl; indent -1
\* is indent=None
ItemSep(indent, lvl) ==
    IF indent < 0 THEN <<",", " ">>
    ELSE <<",", "\n">> \o Spaces(indent * lvl)

\* what follows the opening bracket (lvl: the items' level) or precedes the
\* closing one (lvl: the container's level)
Break(indent, lvl) ==
    IF indent < 0 THEN <<>> ELSE <<"\n">> \o Spaces(indent * lvl)

RECURSIVE Encode(_, _, _)
Encode(x, indent, lvl) ==
    CASE x.t = "null" -> <<"n", "u", "l", "l">>
      [] x.t = "bool" -> IF x.v THEN <<"t", "r", "u", "e">>
                         ELSE <<"f", "a", "l", "s", "e">>
      [] x.t = "int" -> IntToStr(x.v)
      [] x.t = "float" -> FloatRepr(x)
      [] x.t = "str" -> JsonString(x.v)
      [] x.t = "list" ->
            IF x.v = <<>> THEN <<"[", "]">>
            ELSE <<"[">> \o Break(indent, lvl + 1)
                 \o Concat([i \in 1..Len(x.v) |->
                       Encode(x.v[i], indent, lvl + 1)
                       \o (IF i < Len(x.v) THEN ItemSep(indent, lvl + 1)
                           ELSE <<>>)])
                 \o Break(indent, lvl) \o <<"]">>
      [] x.t = "dict" ->
            IF x.v = <<>> THEN <<"{", "}">>
            ELSE <<"{">> \o Break(indent, lvl + 1)
                 \o Concat([i \in 1..Len(x.v) |->
                       JsonString(x.v[i][1]) \o <<":", " ">>
                       \o Encode(x.v[i][2], indent, lvl + 1)
                       \o (IF i < Len(x.v) THEN ItemSep(indent, lvl + 1)
                           ELSE <<>>)])
                 \o Break(indent, lvl) \o <<"}">>

\* json.dumps(x)
dumps(x) == Encode(x, -1, 0)

\* json.dumps(x, indent=n)
dumps_indent(x, n) == Encode(x, n, 0)

(* ------------------------------------------------------------------ *)
(* json.loads                                                          *)
(* ------------------------------------------------------------------ *)

\* a parse result: ok, the value, the index after it
Parsed(x, i) == [ok |-> TRUE, val |-> x, next |-> i]
ParseFail == [ok |-> FALSE, val |-> PyNone, next |-> 0]

IsWs(c) == c \in {" ", "\n", "\t", "\r"}

DigitValue(c) == CHOOSE d \in 0..9 : DigitChars[d + 1] = c
IsDigit(c) == \E d \in 0..9 : DigitChars[d + 1] = c

At(s, i) == IF i >= 1 /\ i <= Len(s) THEN s[i] ELSE "EOF"

RECURSIVE SkipWs(_, _)
SkipWs(s, i) == IF IsWs(At(s, i)) THEN SkipWs(s, i + 1) ELSE i

RECURSIVE StartsWith(_, _, _)
\* whether lit occurs in s at i
StartsWith(s, i, lit) ==
    \/ lit = <<>>
    \/ At(s, i) = lit[1] /\ StartsWith(s, i + 1, Tail(lit))

RECURSIVE BackslashRun(_, _, _)
\* how many backslashes in a row end just before j, none before i
BackslashRun(s, i, j) ==
    IF j > i /\ s[j - 1] = "\\" THEN 1 + BackslashRun(s, i, j - 1) ELSE 0

\* in a string literal whose body starts at i: whether the character at j
\* is the second of an escape pair
Escaped(s, i, j) == BackslashRun(s, i, j) % 2 = 1

ScanBlock == 16

RECURSIVE StringEnd(_, _, _)
\* in a string literal whose body starts at i: the index of the first quote
\* from j on that no backslash escapes, or 0; the scan goes ScanBlock
\* characters at a time
StringEnd(s, i, j) ==
    IF j > Len(s) THEN 0
    ELSE LET hi == IF j + ScanBlock - 1 < Len(s) THEN j + ScanBlock - 1
                   ELSE Len(s)
             ends == {k \in j..hi : s[k] = "\"" /\ ~Escaped(s, i, k)} IN
         IF ends = {} THEN StringEnd(s, i, hi + 1)
         ELSE CHOOSE k \in ends : \A m \in ends : k <= m

\* a string literal whose body starts at i: the scan runs to the first
\* quote that no backslash escapes; a backslash pair gives the character
\* it stands for; a raw control character or an unknown escape ends the
\* parse (strict)
ScanString(s, i) ==
    LET e == StringEnd(s, i, i) IN
    IF e = 0 THEN ParseFail
    ELSE LET piece(j) ==
                 IF Escaped(s, i, j)
                 THEN IF s[j] = "n" THEN <<"\n">> ELSE <<s[j]>>
                 ELSE IF s[j] = "\\" THEN <<>> ELSE <<s[j]>>
             bad(j) ==
                 IF Escaped(s, i, j) THEN s[j] \notin {"\"", "\\", "/", "n"}
                 ELSE s[j] \in {"\n", "\t", "\r"} IN
         IF \E j \in i..(e - 1) : bad(j) THEN ParseFail
         ELSE Parsed(Concat([k \in 1..(e - i) |-> piece(i + k - 1)]), e + 1)

RECURSIVE ScanInt(_, _, _)
\* the digits from i on as a number
ScanInt(s, i, acc) ==
    IF IsDigit(At(s, i)) THEN ScanInt(s, i + 1, 10 * acc + DigitValue(s[i]))
    ELSE Parsed(acc, i)

RECURSIVE ScanDigits(_, _, _)
\* the digits from i on as digits
ScanDigits(s, i, acc) ==
    IF IsDigit(At(s, i)) THEN ScanDigits(s, i + 1, Append(acc, DigitValue(s[i])))
    ELSE Parsed(acc, i)

RECURSIVE StripZeros(_)
\* fraction digits without trailing zeros, the first kept
StripZeros(ds) ==
    IF Len(ds) > 1 /\ ds[Len(ds)] = 0 THEN StripZeros(SubSeq(ds, 1, Len(ds) - 1))
    ELSE ds

\* a number at i: 0 or a digit run without leading zero, then an optional
\* fraction
ScanNumber(s, i) ==
    LET int == IF At(s, i) = "0" THEN Parsed(0, i + 1) ELSE ScanInt(s, i, 0) IN
    IF At(s, int.next) = "." /\ IsDigit(At(s, int.next + 1))
    THEN LET frac == ScanDigits(s, int.next + 1, <<>>) IN
         Parsed(PyFloat(int.val, StripZeros(frac.val)), frac.next)
    ELSE Parsed(PyInt(int.val), int.next)

RECURSIVE ParseValue(_, _), ParseItems(_, _, _), ParseMembers(_, _, _)
\* the JSON value at i (white space before it already skipped)
ParseValue(s, i) ==
    LET c == At(s, i) IN
    CASE c = "\"" ->
            LET r == ScanString(s, i + 1) IN
            IF r.ok THEN Parsed(PyStr(r.val), r.next) ELSE ParseFail
      [] c = "[" ->
            LET j == SkipWs(s, i + 1) IN
            IF At(s, j) = "]" THEN Parsed(PyList(<<>>), j + 1)
            ELSE ParseItems(s, j, <<>>)
      [] c = "{" ->
            LET j == SkipWs(s, i + 1) IN
            IF At(s, j) = "}" THEN Parsed(PyDict(<<>>), j + 1)
            ELSE ParseMembers(s, j, <<>>)
      [] IsDigit(c) -> ScanNumber(s, i)
      [] c = "n" /\ StartsWith(s, i, <<"n", "u", "l", "l">>) -> Parsed(PyNone, i + 4)
      [] c = "t" /\ StartsWith(s, i, <<"t", "r", "u", "e">>) ->
            Parsed(PyBool(TRUE), i + 4)
      [] c = "f" /\ StartsWith(s, i, <<"f", "a", "l", "s", "e">>) ->
            Parsed(PyBool(FALSE), i + 5)
      [] OTHER -> ParseFail

\* the items of a list from i on, acc so far, up to and including "]"
ParseItems(s, i, acc) ==
    LET r == ParseValue(s, i) IN
    IF ~r.ok THEN ParseFail
    ELSE LET j == SkipWs(s, r.next)
             xs == Append(acc, r.val) IN
         IF At(s, j) = "]" THEN Parsed(PyList(xs), j + 1)
         ELSE IF At(s, j) = "," THEN ParseItems(s, SkipWs(s, j + 1), xs)
         ELSE ParseFail

\* the members of an object from i on, acc so far, up to and including "}";
\* a repeated key takes the last value
ParseMembers(s, i, acc) ==
    IF At(s, i) # "\"" THEN ParseFail
    ELSE LET k == ScanString(s, i + 1) IN
         IF ~k.ok THEN ParseFail
         ELSE LET j == SkipWs(s, k.next) IN
              IF At(s, j) # ":" THEN ParseFail
              ELSE LET r == ParseValue(s, SkipWs(s, j + 1)) IN
                   IF ~r.ok THEN ParseFail
                   ELSE LET m == SkipWs(s, r.next)
                            kvs == DictSet(acc, k.val, r.val) IN
                        IF At(s, m) = "}" THEN Parsed(PyDict(kvs), m + 1)
                        ELSE IF At(s, m) = ","
                        THEN ParseMembers(s, SkipWs(s, m + 1), kvs)
                        ELSE ParseFail

\* json.loads(s): ok is FALSE where it raises
loads(s) ==
    LET r == ParseValue(s, SkipWs(s, 1)) IN
    IF r.ok /\ SkipWs(s, r.next) = Len(s) + 1 THEN r ELSE ParseFail

(* ------------------------------------------------------------------ *)
(* repr and str                                                        *)
(* ------------------------------------------------------------------ *)

Contains(s, c) == \E i \in 1..Len(s) : s[i] = c

\* what repr(str), quoted with q, holds for the character c
EscapeReprChar(c, q) ==
    CASE c = q -> <<"\\", q>>
      [] c = "\\" -> <<"\\", "\\">>
      [] c = "\n" -> <<"\\", "n">>
      [] OTHER -> <<c>>

\* the body of repr(str) quoted with q
EscapeRepr(s, q) == Concat([i \in 1..Len(s) |-> EscapeReprChar(s[i], q)])

\* repr(str): single quotes, unless the text holds one and no double quote
StrRepr(s) ==
    LET q == IF Contains(s, "'") /\ ~Contains(s, "\"") THEN "\"" ELSE "'" IN
    <<q>> \o EscapeRepr(s, q) \o <<q>>

RECURSIVE PyRepr(_)
PyRepr(x) ==
    CASE x.t = "null" -> <<"None">>
      [] x.t = "bool" -> IF x.v THEN <<"True">> ELSE <<"False">>
      [] x.t = "int" -> IntToStr(x.v)
      [] x.t = "float" -> FloatRepr(x)
      [] x.t = "str" -> StrRepr(x.v)
      [] x.t = "list" ->
            <<"[">>
            \o Concat([i \in 1..Len(x.v) |->
                  PyRepr(x.v[i])
                  \o (IF i < Len(x.v) THEN <<",", " ">> ELSE <<>>)])
            \o <<"]">>
      [] x.t = "dict" ->
            <<"{">>
            \o Concat([i \in 1..Len(x.v) |->
                  StrRepr(x.v[i][1]) \o <<":", " ">> \o PyRepr(x.v[i][2])
                  \o (IF i < Len(x.v) THEN <<",", " ">> ELSE <<>>)])
            \o <<"}">>

\* str(x), which an f-string applies to {x}
PyStrOf(x) == IF x.t = "str" THEN x.v ELSE PyRepr(x)

\* s[:n]
Truncate(s, n) == IF Len(s) <= n THEN s ELSE SubSeq(s, 1, n)

(* ------------------------------------------------------------------ *)
(* Configuration and the preset catalog                                *)
(* ------------------------------------------------------------------ *)

API_URL == <<"https", ":", "/", "/", "ai", ".", "nirmaker", ".", "com">>
API_KEY == <<"dummy", "-", "key">>
EMBEDDING_MODEL == <<"mistral", "/", "mistral", "-", "embed">>

\* one route of a preset: the dict literal, keys in the order written
Route(name, description, utterances, score_threshold) ==
    PyDict(<< <<W("name"), PyStr(name)>>,
              <<W("description"), PyStr(description)>>,
              <<W("utterances"),
                PyList([i \in 1..Len(utterances) |-> PyStr(utterances[i])])>>,
              <<W("score_threshold"), score_threshold>> >>)

\* one preset: the dict literal
Preset(default_model, routes) ==
    PyDict(<< <<W("default_model"), PyStr(default_model)>>,
              <<W("routes"), PyList(routes)>> >>)

PRESET_coding ==
    Preset(
        <<"mistral", "/", "codestral", "-", "2", "5", "0", "8">>,
        <<
          Route(
            <<"mistral", "/", "codestral", "-", "2", "5", "0", "8">>,
            <<"Primary", ":", " ", "Code", " ", "generation", " ", "(", "2",
              "5", "6", "K", " ", "ctx", ")", ",", " ", "FIM", ",", " ", "8",
              "0", "+", " ", "languages">>,
            <<
              <<"write", " ", "function">>,
              <<"implement", " ", "algorithm">>,
              <<"code", " ", "this">>,
              <<"create", " ", "class">>,
              <<"build", " ", "API">>,
              <<"develop", " ", "feature">>,
              <<"program", " ", "this">>,
              <<"write", " ", "code">>,
              <<"implement", " ", "in">>,
              <<"code", " ", "solution">>,
              <<"create", " ", "code">>
            >>,
            PyFloat(0, <<3>>)),
          Route(
            <<"mistral", "/", "devstral", "-", "medium", "-", "2", "5", "0",
              "7">>,
            <<"Agentic", " ", "coding", " ", "(", "6", "1", ".", "6", "%",
              " ", "SWE", "-", "Bench", ")", ",", " ", "multi", "-", "file">>,
            <<
              <<"fix", " ", "bug">>,
              <<"debug">>,
              <<"find", " ", "error">>,
              <<"troubleshoot">>,
              <<"why", " ", "doesn", "'", "t", " ", "work">>,
              <<"fix", " ", "code">>,
              <<"solve", " ", "issue">>,
              <<"diagnose">>,
              <<"trace", " ", "error">>
            >>,
            PyFloat(0, <<3, 5>>)),
          Route(
            <<"groq", "/", "openai", "/", "gpt", "-", "oss", "-", "1", "2",
              "0", "b">>,
            <<"1", "2", "0", "B", " ", "GPT", ",", " ", "code", " ",
              "reasoning", ",", " ", "~", "5", "0", "0", " ", "tok", "/",
              "s">>,
            <<
              <<"explain", " ", "code">>,
              <<"how", " ", "does", " ", "this", " ", "work">>,
              <<"code", " ", "review">>,
              <<"analyze", " ", "code">>,
              <<"what", " ", "does", " ", "this", " ", "do">>,
              <<"understand", " ", "code">>,
              <<"review", " ", "implementation">>
            >>,
            PyFloat(0, <<4>>))
        >>)

PRESET_reasoning ==
    Preset(
        <<"groq", "/", "llama", "-", "3", ".", "3", "-", "7", "0", "b", "-",
          "versatile">>,
        <<
          Route(
            <<"groq", "/", "llama", "-", "3", ".", "3", "-", "7", "0", "b",
              "-", "versatile">>,
            <<"7", "0", "B", " ", "Llama", "-", "3", ".", "3", ",", " ", "~",
              "2", "8", "0", " ", "tok", "/", "s", ",", " ", "1", "3", "1",
              "K", " ", "ctx">>,
            <<
              <<"analyze">>,
              <<"think", " ", "about">>,
              <<"reason">>,
              <<"evaluate">>,
              <<"consider">>,
              <<"analysis">>,
              <<"logical">>,
              <<"think", " ", "carefully">>
            >>,
            PyFloat(0, <<3>>)),
          Route(
            <<"groq", "/", "deepseek", "-", "r", "1", "-", "distill", "-",
              "llama", "-", "7", "0", "b">>,
            <<"DeepSeek", " ", "R", "1", ",", " ", "9", "4", ".", "5", "%",
              " ", "MATH", "-", "5", "0", "0">>,
            <<
              <<"solve", " ", "mathematically">>,
              <<"calculate">>,
              <<"prove">>,
              <<"math", " ", "problem">>,
              <<"equation">>,
              <<"theorem">>,
              <<"compute">>,
              <<"work", " ", "out">>
            >>,
            PyFloat(0, <<3, 5>>)),
          Route(
            <<"gemini", "/", "gemini", "-", "2", ".", "5", "-", "flash">>,
            <<"Gemini", " ", "2", ".", "5", ",", " ", "1", "M", " ", "ctx",
              ",", " ", "multimodal">>,
            <<
              <<"complex", " ", "problem">>,
              <<"multi", "-", "step">>,
              <<"detailed", " ", "reasoning">>,
              <<"comprehensive", " ", "analysis">>,
              <<"in", "-", "depth">>,
              <<"deep", " ", "dive">>
            >>,
            PyFloat(0, <<4>>))
        >>)

PRESET_quick ==
    Preset(
        <<"groq", "/", "llama", "-", "3", ".", "1", "-", "8", "b", "-",
          "instant">>,
        <<
          Route(
            <<"groq", "/", "llama", "-", "3", ".", "1", "-", "8", "b", "-",
              "instant">>,
            <<"8", "B", " ", "Llama", ",", " ", "ultra", "-", "fast", ",",
              " ", "simple", " ", "queries">>,
            <<
              <<"what", " ", "is">>,
              <<"define">>,
              <<"who", " ", "is">>,
              <<"when", " ", "was">>,
              <<"where", " ", "is">>,
              <<"quick">>,
              <<"simple">>,
              <<"briefly">>,
              <<"short", " ", "answer">>
            >>,
            PyFloat(0, <<2, 5>>)),
          Route(
            <<"gemini", "/", "gemini", "-", "2", ".", "5", "-", "flash", "-",
              "lite">>,
            <<"Flash", " ", "Lite", ",", " ", "~", "3", "9", "2", " ", "tok",
              "/", "s", ",", " ", "low", " ", "cost">>,
            <<
              <<"translate">>,
              <<"convert">>,
              <<"transform">>,
              <<"change", " ", "to">>,
              <<"in", " ", "another", " ", "language">>
            >>,
            PyFloat(0, <<3>>)),
          Route(
            <<"mistral", "/", "open", "-", "mistral", "-", "7", "b">>,
            <<"Open", " ", "Mistral", " ", "7", "B", ",", " ",
              "lightweight">>,
            <<
              <<"summarize">>,
              <<"tldr">>,
              <<"key", " ", "points">>,
              <<"main", " ", "idea">>,
              <<"gist">>,
              <<"sum", " ", "up">>
            >>,
            PyFloat(0, <<3>>))
        >>)

PRESET_creative ==
    Preset(
        <<"groq", "/", "moonshotai", "/", "kimi", "-", "k", "2", "-",
          "instruct">>,
        <<
          Route(
            <<"groq", "/", "moonshotai", "/", "kimi", "-", "k", "2", "-",
              "instruct">>,
            <<"Kimi", " ", "K", "2", ",", " ", "3", "2", "B", " ", "MoE", ",",
              " ", "storytelling">>,
            <<
              <<"write", " ", "story">>,
              <<"tell", " ", "story">>,
              <<"narrative">>,
              <<"fiction">>,
              <<"novel">>,
              <<"short", " ", "story">>,
              <<"tale">>,
              <<"once", " ", "upon", " ", "a", " ", "time">>
            >>,
            PyFloat(0, <<3>>)),
          Route(
            <<"groq", "/", "moonshotai", "/", "kimi", "-", "k", "2", "-",
              "instruct", "-", "0", "9", "0", "5">>,
            <<"Kimi", " ", "K", "2", " ", "updated", ",", " ", "enhanced",
              " ", "creative">>,
            <<
              <<"poem">>,
              <<"poetry">>,
              <<"verse">>,
              <<"rhyme">>,
              <<"compose", " ", "poem">>,
              <<"haiku">>,
              <<"sonnet">>
            >>,
            PyFloat(0, <<3, 5>>)),
          Route(
            <<"mistral", "/", "open", "-", "mistral", "-", "nemo">>,
            <<"Mistral", " ", "Nemo", " ", "1", "2", "B", ",", " ",
              "multilingual">>,
            <<
              <<"email">>,
              <<"letter">>,
              <<"message">>,
              <<"draft">>,
              <<"formal", " ", "letter">>,
              <<"business", " ", "email">>,
              <<"professional", " ", "message">>
            >>,
            PyFloat(0, <<3, 5>>))
        >>)

PRESETS ==
    PyDict(<< <<W("coding"), PRESET_coding>>,
              <<W("reasoning"), PRESET_reasoning>>,
              <<W("quick"), PRESET_quick>>,
              <<W("creative"), PRESET_creative>> >>)

\* PRESETS.keys(), the choices of --preset
PresetNames == {PRESETS.v[i][1] : i \in 1..Len(PRESETS.v)}

(* ------------------------------------------------------------------ *)
(* Output                                                              *)
(* ------------------------------------------------------------------ *)

RuleWidth == 60

\* '=' * 60
Rule == [i \in 1..RuleWidth |-> "="]

MaxErrorLen == 500

(* ------------------------------------------------------------------ *)
(* Bounds and inputs                                                   *)
(* ------------------------------------------------------------------ *)

\* the routes files hold 0..MaxRoutes route objects
MaxRoutes == 2

\* the longest response body is this much longer than the error rendering
\* may be
Overlong == 10

Q(w) == <<"\"", w, "\"">>

\* a route object as written in a file: a trailing zero in the threshold,
\* escaped quotes in the description
RouteTextA ==
    <<"{">> \o Q("name") \o <<":", " ", "\"", "groq", "/", "llama", "\"", ",",
    "\n", " ", " ">> \o Q("description") \o <<":", " ", "\"", "fast", " ",
    "\\", "\"", "8", "B", "\\", "\"", "\"", ",", " ">> \o Q("utterances")
    \o <<":", " ", "[", "\"", "what", " ", "is", "\"", ",", " ">>
    \o Q("define") \o <<"]", ",", " ">> \o Q("score_threshold")
    \o <<":", " ", "0", ".", "3", "0", "}">>

\* another, written compactly, with a repeated key and no description
RouteTextB ==
    <<"{", " ">> \o Q("name") \o <<":">> \o Q("m") \o <<",">>
    \o Q("utterances") \o <<":", "[", "]", ",">> \o Q("score_threshold")
    \o <<":", "1", ".", "0", ",">> \o Q("name") \o <<":", "\"", "m", "/",
    "b", "\"", " ", "}">>

RouteText(k) == IF k % 2 = 1 THEN RouteTextA ELSE RouteTextB

RECURSIVE RouteTexts(_)
RouteTexts(n) ==
    IF n = 0 THEN <<>>
    ELSE IF n = 1 THEN RouteText(1)
    ELSE RouteTexts(n - 1) \o <<",", "\n">> \o RouteText(n)

\* a routes file of n route objects
RoutesFileText(n) == <<"[">> \o RouteTexts(n) \o <<"]", "\n">>

\* files that are not a list of route objects: cut short, a number, a
\* string, an object
OtherFileTexts ==
    { <<"[", "{">> \o Q("name") \o <<":", " ">>,
      <<"5">>,
      <<"\"", "a", "b", "c", "\"">>,
      <<"{">> \o Q("routes") \o <<":", " ", "[", "]", "}">> }

NoFile == [exists |-> FALSE, text |-> <<>>]

Files ==
    {NoFile} \cup
    {[exists |-> TRUE, text |-> t] :
        t \in {RoutesFileText(n) : n \in 0..MaxRoutes} \cup OtherFileTexts}

Names == {<<"MyCoder">>, <<"my", "\"", "router">>}
RoutesPaths == {<<>>, <<"routes", ".", "json">>}
DefaultModels == {<<>>, <<"groq", "/", "llama">>}
ModelIds == {<<>>, <<"xyz">>}

Opt(S) == {PyNone} \cup {PyStr(s) : s \in S}

\* what parse_args can return
Args ==
    [command : {"create"}, name : {PyStr(n) : n \in Names},
     preset : Opt(PresetNames), routes : Opt(RoutesPaths),
     default : Opt(DefaultModels), model_id : {PyNone}]
    \cup
    [command : {"list"}, name : {PyNone}, preset : {PyNone}, routes : {PyNone},
     default : {PyNone}, model_id : {PyNone}]
    \cup
    [command : {"delete"}, name : {PyNone}, preset : {PyNone},
     routes : {PyNone}, default : {PyNone},
     model_id : {PyStr(m) : m \in ModelIds}]

Statuses == {200, 404, 502}

\* response bodies as bytes: whether they are well-formed UTF-8, and the
\* text they decode to
Utf8(text) == [utf8 |-> TRUE, text |-> text]
InvalidUtf8 == [utf8 |-> FALSE, text |-> <<>>]

Descriptor1 ==
    <<"{">> \o Q("model_name") \o <<":", " ">> \o Q("MyCoder") \o <<",", " ">>
    \o Q("model_info") \o <<":", " ", "{">> \o Q("id") \o <<":", " ", "\"",
    "abc", "1", "2", "3", "\"", "}", ",", " ">> \o Q("litellm_params")
    \o <<":", " ", "{">> \o Q("model") \o <<":", " ", "\"", "auto_router",
    "/", "MyCoder", "\"", "}", "}">>

Descriptor2 == <<"{">> \o Q("model_info") \o <<":", " ", "{", "}", "}">>

Bodies ==
    << Utf8(<<"{">> \o Q("model_id") \o <<":", " ", "\"", "abc", "1", "2",
            "3", "\"", "}">>),
       Utf8(<<"{", "}">>),
       Utf8(<<"[", "]">>),
       Utf8(<<"n", "u", "l", "l">>),
       Utf8(<<"B", "a", "d", " ", "G", "a", "t", "e", "w", "a", "y">>),
       Utf8(<<>>),
       Utf8([i \in 1..(MaxErrorLen + Overlong) |-> "x"]),
       InvalidUtf8,
       Utf8(<<"{">> \o Q("data") \o <<":", " ", "[">> \o Descriptor1
            \o <<",", " ">> \o Descriptor2 \o <<"]", "}">>),
       Utf8(<<"{">> \o Q("data") \o <<":", " ", "[", "{">> \o Q("model_info")
            \o <<":", " ", "n", "u", "l", "l", "}", "]", "}">>),
       Utf8(<<"{">> \o Q("data") \o <<":", " ", "5", "}">>) >>

(* ------------------------------------------------------------------ *)
(* State                                                               *)
(* ------------------------------------------------------------------ *)

VARIABLES
    args,       \* what parse_args returned
    file,       \* the file --routes names
    opens,      \* how many times it was opened
    pc,         \* where the process is
    conn,       \* the connection api_request holds
    conns,      \* how many connections were created
    calls,      \* how many times api_request was called
    call,       \* the arguments of the api_request call, and its caller
    requests,   \* the requests sent, in order
    recv,       \* the response read from the connection
    result,     \* what api_request returned
    retval,     \* what create_router returned
    out,        \* the lines printed
    fault       \* the exception that ended the process

vars == <<args, file, opens, pc, conn, conns, calls, call, requests, recv, result,
          retval, out, fault>>

NoConn == [kind |-> "none", state |-> "none"]
NoCall == [caller |-> "none", method |-> "none", path |-> <<>>, body |-> PyNone]
NoResponse == [got |-> FALSE, status |-> 0, body |-> Utf8(<<>>)]
NoResult == [returned |-> FALSE, status |-> 0, response |-> PyNone]

Init ==
    /\ args \in Args
    /\ file \in IF Truthy(args.routes) THEN Files ELSE {NoFile}
    /\ opens = 0
    /\ pc = "main"
    /\ conn = NoConn
    /\ conns = 0
    /\ calls = 0
    /\ call = NoCall
    /\ requests = <<>>
    /\ recv = NoResponse
    /\ result = NoResult
    /\ retval = "unset"
    /\ out = <<>>
    /\ fault = "None"

(* ------------------------------------------------------------------ *)
(* api_request                                                         *)
(* ------------------------------------------------------------------ *)

RECURSIVE UrlScheme(_)
\* urlparse(url).scheme: what precedes the first colon
UrlScheme(url) ==
    IF url = <<>> \/ url[1] = ":" THEN <<>>
    ELSE <<url[1]>> \o UrlScheme(Tail(url))

create_connection ==
    IF UrlScheme(API_URL) = <<"https">>
    THEN [kind |-> "HTTPSConnection", state |-> "created"]
    ELSE [kind |-> "HTTPConnection", state |-> "created"]

Headers ==
    PyDict(<< <<W("Authorization"), PyStr(<<"Bearer", " ">> \o API_KEY)>>,
              <<<<"Content", "-", "Type">>,
                PyStr(<<"application", "/", "json">>)>> >>)

\* api_request is entered from caller, which has printed lines: the headers
\* are built and the connection created
ApiRequestEnter(caller, method, path, body, lines) ==
    /\ call' = [caller |-> caller, method |-> method, path |-> path,
                body |-> body]
    /\ calls' = calls + 1
    /\ conn' = create_connection
    /\ conns' = conns + 1
    /\ out' = out \o lines
    /\ pc' = "request"
    /\ UNCHANGED <<args, file, requests, recv, result, retval, fault>>

\* conn.close()
Close(c) == [c EXCEPT !.state = "closed"]

\* ApiRaise as it would be with conn.close() as the last statement of the
\* try block instead of a finally clause
ApiRaiseNoFinally(exc) ==
    /\ fault' = exc
    /\ pc' = "done"
    /\ UNCHANGED <<args, file, conn, conns, calls, call, requests, result,
                   retval, out>>

\* an exception leaves the try block: the finally clause runs, and nothing
\* up to main catches it
ApiRaise(exc) ==
    /\ conn' = Close(conn)
    /\ fault' = exc
    /\ pc' = "done"
    /\ UNCHANGED <<args, file, conns, calls, call, requests, result, retval,
                   out>>

\* a return statement inside the try block: the finally clause runs
ApiReturn(status, response) ==
    /\ conn' = Close(conn)
    /\ result' = [returned |-> TRUE, status |-> status, response |-> response]
    /\ pc' = "returned"
    /\ UNCHANGED <<args, file, conns, calls, call, requests, retval, out,
                   fault>>

\* the request body: json.dumps(body) if body else None
RequestBody(body) == IF Truthy(body) THEN PyStr(dumps(body)) ELSE PyNone

\* conn.request(...) connects and sends
ConnRequestOk ==
    /\ pc = "request"
    /\ UNCHANGED opens
    /\ requests' = Append(requests,
                          [method |-> call.method, path |-> call.path,
                           body |-> RequestBody(call.body),
                           headers |-> Headers])
    /\ conn' = [conn EXCEPT !.state = "open"]
    /\ pc' = "getresponse"
    /\ UNCHANGED <<args, file, conns, calls, call, recv, result, retval, out,
                   fault>>

\* ConnRequestFault as it would be with a retry on a failed send: a new
\* connection, the request again
ConnRequestFaultRetry ==
    /\ pc = "request"
    /\ UNCHANGED opens
    /\ conn' = create_connection
    /\ conns' = conns + 1
    /\ UNCHANGED <<args, file, pc, calls, call, requests, recv, result, retval,
                   out, fault>>

\* conn.request(...) fails: name resolution, connect, TLS, send
ConnRequestFault ==
    /\ pc = "request"
    /\ UNCHANGED opens
    /\ ApiRaise("OSError")
    /\ UNCHANGED recv

\* conn.getresponse() reads the status line and the headers
GetResponseOk ==
    /\ pc = "getresponse"
    /\ UNCHANGED opens
    /\ \E st \in Statuses :
          recv' = [got |-> FALSE, status |-> st, body |-> Utf8(<<>>)]
    /\ pc' = "read"
    /\ UNCHANGED <<args, file, conn, conns, calls, call, requests, result,
                   retval, out, fault>>

GetResponseFault ==
    /\ pc = "getresponse"
    /\ UNCHANGED opens
    /\ ApiRaise("RemoteDisconnected")
    /\ UNCHANGED recv

\* what the inner try/except makes of the decoded text
Decoded(data) ==
    LET r == loads(data) IN
    IF r.ok THEN r.val ELSE PyDict(<< <<W("raw"), PyStr(data)>> >>)

\* response.read() returns the whole body, it decodes, and json.loads or
\* the fallback gives the value returned
ReadAndReturn ==
    /\ pc = "read"
    /\ UNCHANGED opens
    /\ \E i \in 1..Len(Bodies) :
          /\ Bodies[i].utf8
          /\ recv' = [recv EXCEPT !.got = TRUE, !.body = Bodies[i]]
          /\ ApiReturn(recv.status, Decoded(Bodies[i].text))

\* response.read() returns the whole body, and decode("utf-8") raises
ReadAndDecodeFault ==
    /\ pc = "read"
    /\ UNCHANGED opens
    /\ \E i \in 1..Len(Bodies) :
          /\ ~Bodies[i].utf8
          /\ recv' = [recv EXCEPT !.got = TRUE, !.body = Bodies[i]]
          /\ ApiRaise("UnicodeDecodeError")

\* response.read() fails: the connection drops mid-body
ReadFault ==
    /\ pc = "read"
    /\ UNCHANGED opens
    /\ ApiRaise("IncompleteRead")
    /\ UNCHANGED recv

(* ------------------------------------------------------------------ *)
(* create_router                                                       *)
(* ------------------------------------------------------------------ *)

\* Payload as it would be with the routes encoded bare, not under "routes"
PayloadBareRoutes(name, routes, default_model) ==
    PyDict(<<
      <<W("model_name"), name>>,
      <<W("litellm_params"),
        PyDict(<<
          <<W("model"), PyStr(<<"auto_router", "/">> \o PyStrOf(name))>>,
          <<W("auto_router_config"), PyStr(dumps(routes))>>,
          <<W("auto_router_default_model"), default_model>>,
          <<W("auto_router_embedding_model"), PyStr(EMBEDDING_MODEL)>> >>)>>,
      <<W("model_info"), PyDict(<< <<W("health_check"), PyBool(FALSE)>> >>)>>
    >>)

\* the request create_router builds
Payload(name, routes, default_model) ==
    PyDict(<<
      <<W("model_name"), name>>,
      <<W("litellm_params"),
        PyDict(<<
          <<W("model"), PyStr(<<"auto_router", "/">> \o PyStrOf(name))>>,
          <<W("auto_router_config"),
            PyStr(dumps(PyDict(<< <<W("routes"), routes>> >>)))>>,
          <<W("auto_router_default_model"), default_model>>,
          <<W("auto_router_embedding_model"), PyStr(EMBEDDING_MODEL)>> >>)>>,
      <<W("model_info"), PyDict(<< <<W("health_check"), PyBool(FALSE)>> >>)>>
    >>)

\* len(x), where it is defined
PyLen(x) == Len(x.v)

\* create_router(name, routes, default_model) up to the connection: the
\* banner, then the request; len(routes) raises for a value without length
CreateRouterEnter(name, routes, default_model) ==
    LET banner == << <<"\n">> \o Rule,
                     <<"Creating router: ">> \o PyStrOf(name),
                     <<"Default model: ">> \o PyStrOf(default_model) >> IN
    IF HasLen(routes)
    THEN ApiRequestEnter("create_router", "POST", <<"/", "model", "/", "new">>,
                         Payload(name, routes, default_model),
                         banner \o << <<"Number of routes: ">>
                                         \o IntToStr(PyLen(routes)),
                                      Rule >>)
    ELSE /\ out' = out \o banner
         /\ fault' = "TypeError"
         /\ pc' = "done"
         /\ UNCHANGED <<args, file, conn, conns, calls, call, requests, recv,
                        result, retval>>

\* create_router after api_request returned (status, response)
CreateRouterOutcome(name, status, response) ==
    IF status = 200
    THEN LET first == <<"Router '">> \o PyStrOf(name)
                      \o <<"' created successfully!">> IN
         IF HasGet(response)
         THEN [lines |-> << first,
                            <<"   Model ID: ">>
                            \o PyStrOf(DictGet(response, W("model_id"),
                                               PyStr(<<"N", "/", "A">>))) >>,
               retval |-> "True", fault |-> "None"]
         ELSE [lines |-> <<first>>, retval |-> "unset",
               fault |-> "AttributeError"]
    ELSE [lines |-> << <<"Failed to create router">>,
                       <<"   Status: ">> \o IntToStr(status),
                       <<"   Error: ">>
                       \o Truncate(dumps_indent(response, 2), MaxErrorLen) >>,
          retval |-> "False", fault |-> "None"]

CreateRouterResult ==
    /\ pc = "returned"
    /\ UNCHANGED opens
    /\ call.caller = "create_router"
    /\ LET o == CreateRouterOutcome(args.name, result.status, result.response) IN
       /\ out' = out \o o.lines
       /\ retval' = o.retval
       /\ fault' = o.fault
    /\ pc' = "done"
    /\ UNCHANGED <<args, file, conn, conns, calls, call, requests, recv,
                   result>>

(* ------------------------------------------------------------------ *)
(* list_models                                                         *)
(* ------------------------------------------------------------------ *)

\* what `for model in models` yields
Items(models) ==
    CASE models.t = "list" -> models.v
      [] models.t = "dict" -> [i \in 1..Len(models.v) |-> PyStr(models.v[i][1])]
      [] models.t = "str" -> [i \in 1..Len(models.v) |-> PyStr(<<models.v[i]>>)]

NA == PyStr(<<"N", "/", "A">>)

\* whether the loop body raises on model: a get on what has none
EntryRaises(model) ==
    \/ ~HasGet(model)
    \/ ~HasGet(DictGet(model, W("model_info"), PyDict(<<>>)))
    \/ ~HasGet(DictGet(model, W("litellm_params"), PyDict(<<>>)))

\* the three lines the loop body prints for model
Entry(model) ==
    << <<"\n", "  * ">>
       \o PyStrOf(DictGet(model, W("model_name"), PyStr(<<"Unknown">>))),
       <<"    ID: ">>
       \o PyStrOf(DictGet(DictGet(model, W("model_info"), PyDict(<<>>)),
                          W("id"), NA)),
       <<"    Model: ">>
       \o PyStrOf(DictGet(DictGet(model, W("litellm_params"), PyDict(<<>>)),
                          W("model"), NA)) >>

RECURSIVE Entries(_, _)
\* the loop over the items from i on: the lines printed, and the exception
\* that ended it
Entries(items, i) ==
    IF i > Len(items) THEN [lines |-> <<>>, fault |-> "None"]
    ELSE IF EntryRaises(items[i])
    THEN [lines |-> <<>>, fault |-> "AttributeError"]
    ELSE LET rest == Entries(items, i + 1) IN
         [lines |-> Entry(items[i]) \o rest.lines, fault |-> rest.fault]

\* list_models after api_request returned (status, response)
ListModelsOutcome(status, response) ==
    IF status = 200
    THEN IF ~HasGet(response)
         THEN [lines |-> <<>>, fault |-> "AttributeError"]
         ELSE LET models == DictGet(response, W("data"), PyList(<<>>)) IN
              IF ~HasLen(models)
              THEN [lines |-> << <<"\n">> \o Rule >>, fault |-> "TypeError"]
              ELSE LET es == Entries(Items(models), 1) IN
                   [lines |-> << <<"\n">> \o Rule,
                                 <<"Found ">> \o IntToStr(PyLen(models))
                                 \o <<" models">>,
                                 Rule >> \o es.lines,
                    fault |-> es.fault]
    ELSE [lines |-> << <<"Failed to list models: ">> \o IntToStr(status),
                       PyStrOf(response) >>,
          fault |-> "None"]

ListModelsResult ==
    /\ pc = "returned"
    /\ UNCHANGED opens
    /\ call.caller = "list_models"
    /\ LET o == ListModelsOutcome(result.status, result.response) IN
       /\ out' = out \o o.lines
       /\ fault' = o.fault
    /\ pc' = "done"
    /\ UNCHANGED <<args, file, conn, conns, calls, call, requests, recv,
                   result, retval>>

(* ------------------------------------------------------------------ *)
(* delete_model                                                        *)
(* ------------------------------------------------------------------ *)

\* delete_model after api_request returned (status, response)
DeleteModelOutcome(status, response) ==
    IF status = 200 THEN << <<"Model deleted successfully!">> >>
    ELSE << <<"Failed to delete model: ">> \o IntToStr(status),
            PyStrOf(response) >>

DeleteModelResult ==
    /\ pc = "returned"
    /\ UNCHANGED opens
    /\ call.caller = "delete_model"
    /\ out' = out \o DeleteModelOutcome(result.status, result.response)
    /\ pc' = "done"
    /\ UNCHANGED <<args, file, conn, conns, calls, call, requests, recv,
                   result, retval, fault>>

(* ------------------------------------------------------------------ *)
(* main                                                                *)
(* ------------------------------------------------------------------ *)

UsageDefault == <<"--default is required when using --routes">>
UsageEither == <<"Either --preset or --routes is required">>

\* MainBranch as it would be with `elif args.routes or args.default:`
MainBranchDefaultAsRoutes(a) ==
    IF a.command = "create"
    THEN IF Truthy(a.preset) THEN "preset"
         ELSE IF Truthy(a.routes) \/ Truthy(a.default)
         THEN IF ~Truthy(a.default) THEN "usage_default" ELSE "routes"
         ELSE "usage_either"
    ELSE IF a.command = "list" THEN "list"
    ELSE "delete"

\* MainBranch as it would be without the `if not args.default` check
MainBranchNoDefaultCheck(a) ==
    IF a.command = "create"
    THEN IF Truthy(a.preset) THEN "preset"
         ELSE IF Truthy(a.routes) THEN "routes"
         ELSE "usage_either"
    ELSE IF a.command = "list" THEN "list"
    ELSE "delete"

\* the branch main takes on the parsed arguments
MainBranch(a) ==
    IF a.command = "create"
    THEN IF Truthy(a.preset) THEN "preset"
         ELSE IF Truthy(a.routes)
         THEN IF ~Truthy(a.default) THEN "usage_default" ELSE "routes"
         ELSE "usage_either"
    ELSE IF a.command = "list" THEN "list"
    ELSE "delete"

\* the process ends in main having printed line
Exit(line) ==
    /\ out' = Append(out, line)
    /\ pc' = "done"
    /\ UNCHANGED <<args, file, conn, conns, calls, call, requests, recv,
                   result, retval, fault>>

\* the process ends in main with an uncaught exception
Crash(exc) ==
    /\ fault' = exc
    /\ pc' = "done"
    /\ UNCHANGED <<args, file, conn, conns, calls, call, requests, recv,
                   result, retval, out>>

\* create --preset: the catalog's routes and default model
CreateFromPreset ==
    /\ pc = "main"
    /\ UNCHANGED opens
    /\ MainBranch(args) = "preset"
    /\ LET preset == DictGet(PRESETS, args.preset.v, PyNone) IN
       CreateRouterEnter(args.name, DictGet(preset, W("routes"), PyNone),
                         DictGet(preset, W("default_model"), PyNone))

\* create --routes --default: open the file, json.load it
CreateFromRoutes ==
    /\ pc = "main"
    /\ opens' = opens + 1
    /\ MainBranch(args) = "routes"
    /\ IF ~file.exists THEN Crash("FileNotFoundError")
       ELSE LET routes == loads(file.text) IN
            IF ~routes.ok THEN Crash("JSONDecodeError")
            ELSE CreateRouterEnter(args.name, routes.val, args.default)

\* create --routes without --default
CreateWithoutDefault ==
    /\ pc = "main"
    /\ UNCHANGED opens
    /\ MainBranch(args) = "usage_default"
    /\ Exit(UsageDefault)

\* create with neither --preset nor --routes
CreateWithoutSource ==
    /\ pc = "main"
    /\ UNCHANGED opens
    /\ MainBranch(args) = "usage_either"
    /\ Exit(UsageEither)

FetchingLine ==
    <<"\n", "Fetching models from ">> \o API_URL \o <<"...">>

List ==
    /\ pc = "main"
    /\ UNCHANGED opens
    /\ MainBranch(args) = "list"
    /\ ApiRequestEnter("list_models", "GET", <<"/", "model", "/", "info">>,
                       PyNone, <<FetchingLine>>)

Delete ==
    /\ pc = "main"
    /\ UNCHANGED opens
    /\ MainBranch(args) = "delete"
    /\ ApiRequestEnter("delete_model", "POST",
                       <<"/", "model", "/", "delete">>,
                       PyDict(<< <<W("id"), args.model_id>> >>),
                       << <<"\n", "Deleting model: ">>
                          \o PyStrOf(args.model_id) >>)

(* ------------------------------------------------------------------ *)
(* The process                                                         *)
(* ------------------------------------------------------------------ *)

Next ==
    \/ CreateFromPreset
    \/ CreateFromRoutes
    \/ CreateWithoutDefault
    \/ CreateWithoutSource
    \/ List
    \/ Delete
    \/ ConnRequestOk
    \/ ConnRequestFault
    \/ GetResponseOk
    \/ GetResponseFault
    \/ ReadAndReturn
    \/ ReadAndDecodeFault
    \/ ReadFault
    \/ CreateRouterResult
    \/ ListModelsResult
    \/ DeleteModelResult

Spec == Init /\ [][Next]_vars

(* ------------------------------------------------------------------ *)
(* Properties                                                          *)
(* ------------------------------------------------------------------ *)

IsCreate == args.command = "create"

\* the option was given on the command line
Supplied(opt) == opt # PyNone

\* nothing of the network was touched
NoNetwork ==
    /\ conns = 0
    /\ calls = 0
    /\ conn = NoConn
    /\ requests = <<>>

UsageReported ==
    \E i \in 1..Len(out) : out[i] \in {UsageDefault, UsageEither}

\* C1: a create that supplies both --preset and --routes is rejected: an
\* error is reported, the routes file is not opened, and neither a
\* connection nor a request is made.
C1_BothSuppliedRejected ==
    (IsCreate /\ Supplied(args.preset) /\ Supplied(args.routes)) =>
        /\ NoNetwork
        /\ opens = 0
        /\ pc = "done" => UsageReported

\* C2: a create that supplies neither --preset nor --routes, whatever the
\* name and --default, ends with the usage error as its only output and no
\* fault, and never creates a connection or sends a request.
C2_NeitherSuppliedIsUsageError ==
    (IsCreate /\ ~Supplied(args.preset) /\ ~Supplied(args.routes)) =>
        /\ NoNetwork
        /\ opens = 0
        /\ pc \in {"main", "done"}
        /\ pc = "done" => (out = <<UsageEither>> /\ fault = "None")

C2_Witness ==
    /\ IsCreate
    /\ ~Supplied(args.preset)
    /\ ~Supplied(args.routes)
    /\ Truthy(args.default)
    /\ pc = "done"
    /\ out = <<UsageEither>>

C4_AtMostOneRoundTrip ==
    /\ calls <= 1
    /\ conns <= 1
    /\ Len(requests) <= 1

C4_Witness ==
    /\ pc = "done"
    /\ calls = 1
    /\ conns = 1
    /\ Len(requests) = 1
    /\ recv.got
    /\ result.returned

\* C5: once api_request has returned or raised, the connection it created
\* is closed, whichever way it ended; no connection is left created or
\* open.
C5_ConnectionClosedOnEveryExit ==
    pc \in {"returned", "done"} =>
        /\ conn.state \in {"none", "closed"}
        /\ calls > 0 => conn.state = "closed"

C5_Witness ==
    /\ pc = "done"
    /\ recv.got
    /\ fault = "UnicodeDecodeError"
    /\ conn.state = "closed"

\* C6: for every response fully read from the connection, api_request
\* returns and does not raise: the status with the decoded JSON value when
\* the body is JSON, with {"raw": text} when it is not.
C6_EveryResponseIsReturned ==
    recv.got =>
        /\ result.returned
        /\ result.status = recv.status
        /\ result.response =
              IF loads(recv.body.text).ok THEN loads(recv.body.text).val
              ELSE PyDict(<< <<W("raw"), PyStr(recv.body.text)>> >>)

\* the routes and the default model a create is to send
CreateSource ==
    IF Supplied(args.preset)
    THEN LET preset == DictGet(PRESETS, args.preset.v, PyNone) IN
         [routes |-> DictGet(preset, W("routes"), PyNone),
          default_model |-> DictGet(preset, W("default_model"), PyNone)]
    ELSE [routes |-> loads(file.text).val, default_model |-> args.default]

\* what C7 asks of the request req a create has sent
CreateRequestCarriesRoutes(req) ==
    /\ req.method = "POST"
    /\ req.path = <<"/", "model", "/", "new">>
    /\ req.body.t = "str"
    /\ LET body == loads(req.body.v)
           params == DictGet(body.val, W("litellm_params"), PyNone)
           config == DictGet(params, W("auto_router_config"), PyNone) IN
       /\ body.ok
       /\ DictGet(body.val, W("model_name"), PyNone) = args.name
       /\ params.t = "dict"
       /\ DictGet(params, W("auto_router_default_model"), PyNone)
             = CreateSource.default_model
       /\ config.t = "str"
       /\ loads(config.v)
             = Parsed(PyDict(<< <<W("routes"), CreateSource.routes>> >>),
                      Len(config.v) + 1)

\* C7: whenever a create sends a request, it is the only request of the
\* invocation, a POST to /model/new whose body is JSON with model_name the
\* router name, auto_router_default_model the default model, and
\* auto_router_config a string that parses to {"routes": R}, R in its
\* order: the preset's routes and default model for a preset create, the
\* file's value and --default for a routes-file create.
C7_CreateRequestCarriesRoutes ==
    [][(IsCreate /\ requests' # requests) =>
          /\ Len(requests') = 1
          /\ CreateRequestCarriesRoutes(requests'[1])]_vars

C7_Witness ==
    /\ IsCreate
    /\ ~Supplied(args.preset)
    /\ Len(requests) = 1
    /\ args.name = PyStr(<<"my", "\"", "router">>)
    /\ loads(file.text).val.t = "list"
    /\ Len(loads(file.text).val.v) >= 2

\* C8: for every response api_request returns to create_router, whatever
\* the status and the body, create_router returns without raising: True
\* exactly when the status is 200, False otherwise.
C8_CreateRouterReturnsBoolean ==
    (call.caller = "create_router" /\ result.returned /\ pc = "done") =>
        /\ fault = "None"
        /\ retval = IF result.status = 200 THEN "True" ELSE "False"

DeleteRequest(m) ==
    [method |-> "POST", path |-> <<"/", "model", "/", "delete">>,
     body |-> PyStr(<<"{">> \o Q("id") \o <<":", " ">> \o JsonString(m.v)
                    \o <<"}">>),
     headers |-> Headers]

\* C9: delete m sends exactly one request, a POST to /model/delete with
\* body {"id": m}; for every response read it ends without raising, with
\* the success line exactly when the status is 200 and the status and the
\* body otherwise.
C9_DeleteOneRequestNeverRaises ==
    args.command = "delete" =>
        /\ requests \in {<<>>, <<DeleteRequest(args.model_id)>>}
        /\ (recv.got /\ pc = "done") =>
              /\ fault = "None"
              /\ result.returned
              /\ Len(out) >= 2
              /\ recv.status = 200 <=>
                    out[2] = <<"Model deleted successfully!">>
              /\ recv.status # 200 =>
                    /\ out[2] = <<"Failed to delete model: ">>
                                \o IntToStr(recv.status)
                    /\ Len(out) = 3

\* the lines that are the first of an entry
EntryHeads == {i \in 1..Len(out) : Len(out[i]) >= 2 /\ out[i][2] = "  * "}

\* C10: list sends one GET to /model/info; when api_request returns status
\* 200 it ends without raising, having printed one entry per descriptor of
\* the data list, in order, placeholders for missing fields; for another
\* status it prints no entry, but the status and the body.
C10_ListRendersEveryDescriptor ==
    (args.command = "list" /\ result.returned /\ pc = "done") =>
        /\ Len(requests) = 1
        /\ requests[1].method = "GET"
        /\ requests[1].path = <<"/", "model", "/", "info">>
        /\ fault = "None"
        /\ IF result.status = 200
           THEN LET data == DictGet(result.response, W("data"), PyList(<<>>)) IN
                /\ data.t = "list"
                /\ out = SubSeq(out, 1, 4)
                         \o Concat([i \in 1..Len(data.v) |-> Entry(data.v[i])])
           ELSE /\ EntryHeads = {}
                /\ out = << FetchingLine,
                            <<"Failed to list models: ">>
                            \o IntToStr(result.status),
                            PyStrOf(result.response) >>

====
